---- MODULE Spec2Model ----
(***************************************************************************)
(* Container collision simulation (runCollisionSimulation): a fixed set of *)
(* balls in a rectangular container, a single drag slot, and one frame of  *)
(* the loop = any number of input events followed by one tick              *)
(* (integration + wall handling, then the pairwise ball-ball pass).        *)
(* SpecPair applies the pairwise pass to drawn two-ball configurations,    *)
(* SpecRest runs the frames with no input from a placement at rest.        *)
(* Projectile simulation (runProjectileSimulation): aim, launch, flight    *)
(* with a pause at the peak, landing, and the re-arming of the throw       *)
(* (SpecProjectile; SpecFlight runs the same loop with its frames not      *)
(* counted and weakly fair).                                               *)
(* Viscosity simulation (runViscositySimulation): five balls sinking in    *)
(* their containers, started by Space and reset by R (SpecViscosity).      *)
(* Orbit simulation (runOrbitSimulation): the planets' angles and trails   *)
(* (SpecOrbit).                                                            *)
(*                                                                         *)
(* Numbers.  The program computes in float.  The model computes in fixed   *)
(* point: lengths and speeds are integers counting 1/UNIT pixel (per       *)
(* second), a unit vector is an integer pair counting 1/NSCALE, dt counts  *)
(* 1/DTUNIT second, and every product or quotient that float would round   *)
(* is rounded to the nearest representable value (ties away from zero, so  *)
(* that -(a*b) = (-a)*b as in float).  A distance (the result of hypot)    *)
(* counts 1/(UNIT*FINE) pixel, so that a short distance keeps the relative *)
(* precision the division d / dist needs.                                  *)
(***************************************************************************)
EXTENDS Integers, Sequences, FiniteSets, TLC

\* ------------------------------------------------------------ bounds
NumBalls == 3
MaxSteps == 6

\* ------------------------------------------------- number representation
UNIT == 10
NSCALE == 1000
DTUNIT == 10
FINE == 100
\* distances of FineLimit units and more are kept to 1/UNIT pixel only
FineLimit == 400

Abs(a) == IF a < 0 THEN -a ELSE a

\* a / b rounded to nearest, ties away from zero (b > 0)
RDiv(a, b) == IF a >= 0 THEN (2 * a + b) \div (2 * b)
                        ELSE -((2 * (-a) + b) \div (2 * b))

RECURSIVE SqrtBisect(_, _, _)
\* floor(sqrt(s)), given lo*lo <= s < hi*hi
SqrtBisect(s, lo, hi) ==
    IF hi - lo <= 1 THEN lo
    ELSE LET mid == (lo + hi) \div 2
         IN IF mid * mid <= s THEN SqrtBisect(s, mid, hi)
                              ELSE SqrtBisect(s, lo, mid)

\* sqrt(s) rounded to nearest
RoundSqrt(s) ==
    LET r == SqrtBisect(s, 0, 46341)
    IN IF s - r * r > r THEN r + 1 ELSE r

\* std::hypot: sqrt(dx^2 + dy^2), in 1/(UNIT*FINE) pixel
Hypot(dx, dy) ==
    LET s == dx * dx + dy * dy
    IN IF s < FineLimit * FineLimit
       THEN RoundSqrt(s * FINE * FINE)
       ELSE RoundSqrt(s) * FINE

Vec(a, b) == [x |-> a, y |-> b]
VAdd(u, v) == Vec(u.x + v.x, u.y + v.y)
VSub(u, v) == Vec(u.x - v.x, u.y - v.y)
Zero == Vec(0, 0)
Px(a, b) == Vec(a * UNIT, b * UNIT)

\* ------------------------------------------------------ program constants
windowSizeX == 800
windowSizeY == 600
radius == 15 * UNIT
\* restitution = 0.8f, in tenths
restitution == 8
throwScale == 5

\* sf::FloatRect bounds(50, 50, windowSize.x - 100, windowSize.y - 100)
CodeBounds == [left |-> 50 * UNIT, top |-> 50 * UNIT,
               width |-> (windowSizeX - 100) * UNIT,
               height |-> (windowSizeY - 100) * UNIT]

Balls == 0 .. (NumBalls - 1)

\* ------------------------------------------------------------ inputs
\* frame times the clock may deliver: 0.1 s and 1 s
DtValues == {1, 10}
\* pointer positions of a press
PressPoints == {Px(100, 150), Px(115, 150), Px(120, 150), Px(112, 166),
                Px(200, 150), Px(400, 400)}
\* pointer displacement of a release, relative to the last grab position
Deltas == {Px(0, 0), Px(10, 0), Px(-10, 0), Px(-10, -20)}
\* the random placement draws every centre from
\* [left + 20, left + width - 20) x [top + 20, top + height - 20) and does
\* not look at the other balls: ball i is placed at (100,150) + i * step,
\* overlapping its neighbour (steps of length 20) or clear of it
Steps == {Px(20, 0), Px(12, 16), Px(100, 0)}
Placement(step) == [i \in Balls |-> Vec(100 * UNIT + i * step.x, 150 * UNIT + i * step.y)]

VARIABLES bounds, pos, vel, dragging, dragIndex, dragStart, steps, last

vars == <<bounds, pos, vel, dragging, dragIndex, dragStart, steps, last>>

\* ------------------------------------- projectile: constants and state
\* runProjectileSimulation (projectile.cpp); lengths in 1/UNIT pixel, times
\* in 1/DTUNIT second
PROJECTILE_GRAVITY == 500
groundH == 4
ballR == 8
cannonPos == Vec(50 * UNIT, (windowSizeY - groundH - 10) * UNIT)
peakPauseDur == 2 * DTUNIT
resultDur == 4 * DTUNIT
speedPerPixel == 4
maxSpeed == 1000 * UNIT
muzzle == 50 * UNIT

VARIABLES aiming, launched, peakPause, landed, ball, velocity, prevVy,
          maxHeight, pauseClock, resultClock

\* History of the flights: n counts the launches, up says that the last
\* launch left the cannon with velocity.y < 0, peaks counts the peak pauses
\* entered since the last launch.
VARIABLE flight

pvars == <<aiming, launched, peakPause, landed, ball, velocity, prevVy,
           maxHeight, pauseClock, resultClock, flight>>
cvars == <<bounds, pos, vel, dragging, dragIndex, dragStart>>

\* the state before the loop of runProjectileSimulation
ProjectileStart ==
    /\ aiming = FALSE /\ launched = FALSE /\ peakPause = FALSE /\ landed = FALSE
    /\ ball = cannonPos
    /\ velocity = Zero
    /\ prevVy = 0
    /\ maxHeight = 0
    /\ pauseClock = 0
    /\ resultClock = 0
    /\ flight = [n |-> 0, up |-> FALSE, peaks |-> 0]

\* ------------------------------------------- viscosity: constants, state
\* the desktop the window is opened on, in pixels
desktopW == 1920
desktopH == 1080
\* window.setFramerateLimit(60): a frame time dt is counted in 1/60 s
FRAMERATE == 60
COUNT == 5
viscosityValues == <<5, 8, 15, 50, 30>>
gh == 350
width == 150
height == 400
spacing == 100
circleRadius == 10
startX == RDiv((desktopW - (COUNT * width + (COUNT - 1) * spacing)) * UNIT, 2)
topY == (desktopH - gh - height) * UNIT
Circles == 0 .. (COUNT - 1)
\* containers[i].getPosition()
ContainerPos(i) == Vec(startX + i * (width + spacing) * UNIT, topY)
\* the centre of container i, 10 above the middle
CircleStart(i) ==
    Vec(ContainerPos(i).x + RDiv(width * UNIT, 2),
        ContainerPos(i).y + RDiv(height * UNIT, 2) - 10 * UNIT)
\* PhysicsCircle(x, y)
PhysicsCircle(p) == [position |-> p, velocity |-> Zero, settled |-> FALSE]

VARIABLES isRunning, balls
qvars == <<isRunning, balls>>

ViscosityStart ==
    /\ isRunning = FALSE
    /\ balls = [i \in Circles |-> PhysicsCircle(CircleStart(i))]

\* ------------------------------------------------ orbits: constants, state
\* angles in 1/100000 rad
TWO_PI == 628319
HALF_PI == 157080
AU == 150
\* 86400.f / TIME_SCALE seconds for a day, in 1/100000 s
dayTicks == 864
\* orbit radius in hundredths of AU, orbit period in tenths of a day
\* (365.25 days is taken as 365.3), Mercury to Neptune
orbitAU == <<39, 72, 100, 152, 520, 958, 1922, 3005>>
orbitDays == <<880, 2247, 3653, 6870, 43310, 107470, 305890, 598000>>
Planets == 1 .. Len(orbitDays)
orbitRadius(p) == RDiv(orbitAU[p] * AU * UNIT, 100)
\* orbitPeriod * 86400.f / TIME_SCALE, in milliseconds
orbitPeriod(p) == RDiv(orbitDays[p] * dayTicks, 1000)
\* center(window.getSize().x / 2.f, window.getSize().y / 2.f), window 1280 x 900
center == Px(640, 450)
\* the trail is cut when it holds more than this many points
trailCut == 80

VARIABLES planets, path
ovars == <<planets, path>>

\* the planets as constructed: angle 0, empty trail; path keeps every
\* position a planet has been given a trail point for
OrbitStart ==
    /\ planets = [p \in Planets |-> [currentOrbitAngle |-> 0, trail |-> <<>>]]
    /\ path = [p \in Planets |-> <<>>]

NoPairs == {}
Last(op, m, dt, open, resolved) ==
    [op |-> op, m |-> m, dt |-> dt, open |-> open, resolved |-> resolved]

InPlacementRange(b, p) ==
    /\ b.left + 20 * UNIT <= p.x /\ p.x < b.left + b.width - 20 * UNIT
    /\ b.top + 20 * UNIT <= p.y /\ p.y < b.top + b.height - 20 * UNIT

InitBalls(b) ==
    /\ bounds = b
    /\ \E step \in Steps : pos = Placement(step)
    /\ \A i \in Balls : InPlacementRange(b, pos[i])
    /\ vel = [i \in Balls |-> Zero]
    /\ dragging = FALSE
    /\ dragIndex = -1
    /\ dragStart = Zero
    /\ steps = 0
    /\ last = Last("init", Zero, 0, FALSE, NoPairs)
    /\ ProjectileStart
    /\ ViscosityStart
    /\ OrbitStart

Init == InitBalls(CodeBounds)

\* The container and placement of the specification's scenario:
\* container (0, 0, 400, 300), balls at (100,150), (200,150), ...
ScenarioBounds == [left |-> 0, top |-> 0, width |-> 400 * UNIT, height |-> 300 * UNIT]
InitScenario == InitBalls(ScenarioBounds) /\ pos = Placement(Px(100, 0))

\* ------------------------------------------------------------ events
\* Mutant: Space zeroes the velocities and forgets to cancel the drag.
KeyPressedSpace_KeepsDrag ==
    /\ steps < MaxSteps
    /\ vel' = [i \in Balls |-> Zero]
    /\ steps' = steps + 1
    /\ last' = Last("clear", Zero, 0, dragging, NoPairs)
    /\ UNCHANGED <<bounds, pos, dragging, dragIndex, dragStart>>

\* KeyPressed Space: every velocity to zero, drag cancelled
KeyPressedSpace ==
    /\ steps < MaxSteps
    /\ vel' = [i \in Balls |-> Zero]
    /\ dragging' = FALSE
    /\ steps' = steps + 1
    /\ last' = Last("clear", Zero, 0, dragging, NoPairs)
    /\ UNCHANGED <<bounds, pos, dragIndex, dragStart>>

\* Mutant: d < radius, the rim excluded.
Hit_Strict(m, i) == Hypot(m.x - pos[i].x, m.y - pos[i].y) < radius * FINE

\* d <= balls[i].radius for the press position m
Hit(m, i) == Hypot(m.x - pos[i].x, m.y - pos[i].y) <= radius * FINE

\* the press loop: first index whose ball contains m, or -1
HitIndex(m) ==
    IF \E i \in Balls : Hit(m, i)
    THEN CHOOSE i \in Balls : Hit(m, i) /\ \A k \in Balls : Hit(m, k) => i <= k
    ELSE -1

\* Mutant: the press opens a session whether or not it hit a ball.
MouseButtonPressed_AlwaysOpens(m) ==
    /\ steps < MaxSteps
    /\ LET i == HitIndex(m)
       IN /\ dragging' = TRUE
          /\ dragIndex' = i
          /\ dragStart' = m
          /\ vel' = [k \in Balls |-> IF k = i THEN Zero ELSE vel[k]]
    /\ steps' = steps + 1
    /\ last' = Last("press", m, 0, dragging, NoPairs)
    /\ UNCHANGED <<bounds, pos>>

MouseButtonPressed(m) ==
    /\ steps < MaxSteps
    /\ LET i == HitIndex(m)
       IN IF i >= 0
          THEN /\ dragging' = TRUE
               /\ dragIndex' = i
               /\ dragStart' = m
               /\ vel' = [vel EXCEPT ![i] = Zero]
          ELSE UNCHANGED <<dragging, dragIndex, dragStart, vel>>
    /\ steps' = steps + 1
    /\ last' = Last("press", m, 0, dragging, NoPairs)
    /\ UNCHANGED <<bounds, pos>>

\* Mutant: velocity += (m - dragStart) * 5.f
ThrowVelocity_Adds(m) ==
    Vec(vel[dragIndex].x + (m.x - dragStart.x) * throwScale,
        vel[dragIndex].y + (m.y - dragStart.y) * throwScale)

\* (m - dragStart) * 5.f
ThrowVelocity(m) ==
    Vec((m.x - dragStart.x) * throwScale, (m.y - dragStart.y) * throwScale)

\* Mutant: the release handler does not test `dragging`.
MouseButtonReleased_NoGuard(m) ==
    /\ steps < MaxSteps
    /\ IF dragIndex \in Balls
       THEN /\ vel' = [vel EXCEPT ![dragIndex] =
                          Vec((m.x - dragStart.x) * throwScale,
                              (m.y - dragStart.y) * throwScale)]
            /\ dragging' = FALSE
       ELSE UNCHANGED <<vel, dragging>>
    /\ steps' = steps + 1
    /\ last' = Last("release", m, 0, dragging, NoPairs)
    /\ UNCHANGED <<bounds, pos, dragIndex, dragStart>>

MouseButtonReleased(m) ==
    /\ steps < MaxSteps
    /\ IF dragging
       THEN /\ vel' = [vel EXCEPT ![dragIndex] = ThrowVelocity(m)]
            /\ dragging' = FALSE
       ELSE UNCHANGED <<vel, dragging>>
    /\ steps' = steps + 1
    /\ last' = Last("release", m, 0, dragging, NoPairs)
    /\ UNCHANGED <<bounds, pos, dragIndex, dragStart>>

\* ------------------------------------------------------------ the tick
\* Mutant: the component is reversed and keeps its magnitude.
Bounce_Undamped(v) == -v

\* x * -restitution
Bounce(v) == RDiv(v * (-restitution), 10)

\* Mutant: b.shape.setPosition(b.velocity * dt)
Move_SetPosition(p, v, dt) == Vec(RDiv(v.x * dt, DTUNIT), RDiv(v.y * dt, DTUNIT))

\* b.shape.move(b.velocity * dt)
Move(p, v, dt) == Vec(p.x + RDiv(v.x * dt, DTUNIT), p.y + RDiv(v.y * dt, DTUNIT))

\* The four wall tests of one ball. p is read once, after the move; every
\* setPosition uses p's other coordinate, not the ball's current one.
WallLeft(b, p, s) ==
    IF p.x - radius < b.left
    THEN [pos |-> Vec(b.left + radius, p.y), vel |-> Vec(Bounce(s.vel.x), s.vel.y)]
    ELSE s

WallRight(b, p, s) ==
    IF p.x + radius > b.left + b.width
    THEN [pos |-> Vec(b.left + b.width - radius, p.y),
          vel |-> Vec(Bounce(s.vel.x), s.vel.y)]
    ELSE s

WallTop(b, p, s) ==
    IF p.y - radius < b.top
    THEN [pos |-> Vec(p.x, b.top + radius), vel |-> Vec(s.vel.x, Bounce(s.vel.y))]
    ELSE s

WallBottom(b, p, s) ==
    IF p.y + radius > b.top + b.height
    THEN [pos |-> Vec(p.x, b.top + b.height - radius),
          vel |-> Vec(s.vel.x, Bounce(s.vel.y))]
    ELSE s

\* "Move & wall collision" for one ball
MoveAndWall(b, p0, v0, dt) ==
    LET p == Move(p0, v0, dt)
    IN WallBottom(b, p, WallTop(b, p, WallRight(b, p, WallLeft(b, p,
           [pos |-> p, vel |-> v0]))))

\* Mutant: the test dist < minD is dropped.
PairOverlaps_NoUpper(dist, minD) == dist > 0

\* dist < minD && dist > 0.f
PairOverlaps(dist, minD) == dist < minD /\ dist > 0

\* n = d / dist
Normal(d, dist) ==
    Vec(RDiv(d.x * NSCALE * FINE, dist), RDiv(d.y * NSCALE * FINE, dist))

\* rel.x * n.x + rel.y * n.y
Vrel(rel, n) == RDiv(rel.x * n.x + rel.y * n.y, NSCALE)

\* -(1 + e) * vrel / 2.f for a restitution e in tenths
JimpE(vrel, e) == RDiv(-(10 + e) * vrel, 20)

\* -(1 + restitution) * vrel / 2.f
Jimp(vrel) == JimpE(vrel, restitution)

\* Mutant: n * (overlap * 0.25f)
HalfPush_Quarter(n, overlap) ==
    Vec(RDiv(n.x * overlap, 4 * NSCALE * FINE), RDiv(n.y * overlap, 4 * NSCALE * FINE))

\* n * (overlap * 0.5f), overlap in 1/(UNIT*FINE) pixel
HalfPush(n, overlap) ==
    Vec(RDiv(n.x * overlap, 2 * NSCALE * FINE), RDiv(n.y * overlap, 2 * NSCALE * FINE))

\* Mutant: the positional correction runs for every detected pair, outside
\* the vrel < 0 branch.
CollideE_AlwaysCorrects(st, i, j, e) ==
    LET d == VSub(st.pos[j], st.pos[i])
        dist == Hypot(d.x, d.y)
        minDist == (radius + radius) * FINE
    IN IF PairOverlaps(dist, minDist)
       THEN LET n == Normal(d, dist)
                vrel == Vrel(VSub(st.vel[i], st.vel[j]), n)
                jimp == IF vrel < 0 THEN JimpE(vrel, e) ELSE 0
                P == Vec(RDiv(jimp * n.x, NSCALE), RDiv(jimp * n.y, NSCALE))
                h == HalfPush(n, minDist - dist)
            IN [pos |-> [st.pos EXCEPT ![i] = VSub(st.pos[i], h),
                                       ![j] = VAdd(st.pos[j], h)],
                vel |-> [st.vel EXCEPT ![i] = VAdd(st.vel[i], P),
                                       ![j] = VSub(st.vel[j], P)],
                resolved |-> st.resolved \cup {<<i, j>>}]
       ELSE st

\* Mutant: the impulse is given to A only.
CollideE_OneSided(st, i, j, e) ==
    LET d == VSub(st.pos[j], st.pos[i])
        dist == Hypot(d.x, d.y)
        minDist == (radius + radius) * FINE
    IN IF PairOverlaps(dist, minDist)
       THEN LET n == Normal(d, dist)
                vrel == Vrel(VSub(st.vel[i], st.vel[j]), n)
            IN IF vrel < 0
               THEN LET jimp == JimpE(vrel, e)
                        P == Vec(RDiv(jimp * n.x, NSCALE), RDiv(jimp * n.y, NSCALE))
                        h == HalfPush(n, minDist - dist)
                    IN [pos |-> [st.pos EXCEPT ![i] = VSub(st.pos[i], h),
                                               ![j] = VAdd(st.pos[j], h)],
                        vel |-> [st.vel EXCEPT ![i] = VAdd(st.vel[i], P)],
                        resolved |-> st.resolved \cup {<<i, j>>}]
               ELSE st
       ELSE st

\* One pair (i, j), i < j, of the ball-ball pass; st = [pos, vel, resolved].
\* e is the restitution in tenths: the program's constant, or the value a
\* test puts in its place.
CollideE(st, i, j, e) ==
    LET d == VSub(st.pos[j], st.pos[i])
        dist == Hypot(d.x, d.y)
        minDist == (radius + radius) * FINE
    IN IF PairOverlaps(dist, minDist)
       THEN LET n == Normal(d, dist)
                rel == VSub(st.vel[i], st.vel[j])
                vrel == Vrel(rel, n)
            IN IF vrel < 0
               THEN LET jimp == JimpE(vrel, e)
                        P == Vec(RDiv(jimp * n.x, NSCALE), RDiv(jimp * n.y, NSCALE))
                        h == HalfPush(n, minDist - dist)
                    IN [pos |-> [st.pos EXCEPT ![i] = VSub(st.pos[i], h),
                                               ![j] = VAdd(st.pos[j], h)],
                        vel |-> [st.vel EXCEPT ![i] = VAdd(st.vel[i], P),
                                               ![j] = VSub(st.vel[j], P)],
                        resolved |-> st.resolved \cup {<<i, j>>}]
               ELSE st
       ELSE st

Collide(st, i, j) == CollideE(st, i, j, restitution)

RECURSIVE PairPassE(_, _, _, _)
\* for i in 0..n-1, for j in i+1..n-1, in that order
PairPassE(st, i, j, e) ==
    IF i >= NumBalls THEN st
    ELSE IF j >= NumBalls THEN PairPassE(st, i + 1, i + 2, e)
    ELSE PairPassE(CollideE(st, i, j, e), i, j + 1, e)

PairPass(st, i, j) == PairPassE(st, i, j, restitution)

\* The physics of one frame: move & wall collision, then ball-ball
Physics(dt) ==
    /\ LET w == [i \in Balls |-> MoveAndWall(bounds, pos[i], vel[i], dt)]
           st == PairPass([pos |-> [i \in Balls |-> w[i].pos],
                           vel |-> [i \in Balls |-> w[i].vel],
                           resolved |-> NoPairs], 0, 1)
       IN /\ pos' = st.pos
          /\ vel' = st.vel
          /\ last' = Last("tick", Zero, dt, dragging, st.resolved)
    /\ UNCHANGED <<bounds, dragging, dragIndex, dragStart>>

\* One frame's physics with the clock delivering dt
Tick(dt) ==
    /\ steps < MaxSteps
    /\ Physics(dt)
    /\ steps' = steps + 1

ReleasePoints == {VAdd(dragStart, d) : d \in Deltas}

\* the loop of runCollisionSimulation; the projectile is not running
Next ==
    \/ KeyPressedSpace /\ UNCHANGED <<pvars, qvars, ovars>>
    \/ \E m \in PressPoints : MouseButtonPressed(m) /\ UNCHANGED <<pvars, qvars, ovars>>
    \/ \E m \in ReleasePoints : MouseButtonReleased(m) /\ UNCHANGED <<pvars, qvars, ovars>>
    \/ \E dt \in DtValues : Tick(dt) /\ UNCHANGED <<pvars, qvars, ovars>>

Spec == Init /\ [][Next]_vars

SpecScenario == InitScenario /\ [][Next]_vars

TypeOK ==
    /\ pos \in [Balls -> [x : Int, y : Int]]
    /\ vel \in [Balls -> [x : Int, y : Int]]
    /\ dragging \in BOOLEAN
    /\ dragIndex \in (Balls \cup {-1})
    /\ steps \in 0 .. MaxSteps

\* ------------------------------------------------------------ claims
Dist(i, j) == Hypot(pos[j].x - pos[i].x, pos[j].y - pos[i].y)
DistTo(m, i) == Hypot(m.x - pos[i].x, m.y - pos[i].y)
minD == (radius + radius) * FINE
Pairs == {pr \in Balls \X Balls : pr[1] < pr[2]}
Inside(b, p) ==
    /\ b.left <= p.x - radius /\ p.x + radius <= b.left + b.width
    /\ b.top <= p.y - radius /\ p.y + radius <= b.top + b.height

\* C1 (as claimed): after every tick, whatever the dt values and the
\* grab/throw/clear inputs, every ball lies inside the container:
\* left <= x - r, x + r <= left + width, top <= y - r, y + r <= top + height.
C1_WallContainment == \A i \in Balls : Inside(bounds, pos[i])

\* C2 (as claimed): when only one pair of balls can overlap (every other
\* pair is apart), at the end of every tick the distance between the centres
\* of that pair is at least the sum of the radii, whatever the velocities are.
C2_NoOverlapAfterTick ==
    last.op = "tick" =>
        \A pr \in Pairs :
            (\A q \in Pairs \ {pr} : Dist(q[1], q[2]) >= 2 * minD) =>
                Dist(pr[1], pr[2]) >= minD

\* rounding of the two half pushes to 1/UNIT pixel: 0.2 px
Tolerance == 2 * FINE

\* C2 (amended): at the end of a tick whose pairwise pass resolved exactly
\* one pair (0 < dist < minD and vrel < 0), the distance between that pair's
\* centres is at least the sum of the radii, up to rounding.
C2_ResolvedPairSeparated ==
    \A pr \in Pairs :
        (last.op = "tick" /\ last.resolved = {pr}) =>
            Dist(pr[1], pr[2]) >= minD - Tolerance

\* C2 witness: a tick has resolved the pair (0, 1) and nothing else.
C2_Witness == last.op = "tick" /\ last.resolved = {<<0, 1>>} /\ Dist(0, 1) < 2 * minD

\* The scenario's state before its tick: balls 0 and 1 at (100,150) and
\* (200,150) with velocities (50,0) and (-50,0), every other ball at rest and
\* out of reach of the meeting point.
ScenarioPre ==
    /\ bounds = ScenarioBounds
    /\ pos[0] = Px(100, 150) /\ vel[0] = Px(50, 0)
    /\ pos[1] = Px(200, 150) /\ vel[1] = Px(-50, 0)
    /\ \A k \in Balls \ {0, 1} : vel[k] = Zero /\ DistTo(Px(150, 150), k) >= 2 * minD

ScenarioTick == ScenarioPre /\ last'.op = "tick" /\ last'.dt = DTUNIT

\* C3 (as claimed): the scenario's tick with dt = 1 reverses the relative
\* normal velocity to -0.8 times its value before the tick and leaves the
\* centres at least 30 apart.
C3_ScenarioResolved ==
    [][ScenarioTick =>
          /\ 10 * (vel'[0].x - vel'[1].x) = -restitution * (vel[0].x - vel[1].x)
          /\ Dist(0, 1)' >= 30 * UNIT * FINE]_vars

\* C3 (amended): the scenario's tick with dt = 1 moves both centres to
\* (150,150); the centres coincide (dist = 0), the pair is not resolved, both
\* velocities are what they were and the centre distance is 0.
C3_ScenarioCoincident ==
    [][ScenarioTick =>
          /\ pos'[0] = Px(150, 150) /\ pos'[1] = Px(150, 150)
          /\ vel'[0] = vel[0] /\ vel'[1] = vel[1]
          /\ last'.resolved = NoPairs
          /\ Dist(0, 1)' = 0]_vars

\* C3 witness: the scenario's tick has run.
C3_Witness ==
    /\ bounds = ScenarioBounds /\ last.op = "tick" /\ last.dt = DTUNIT
    /\ pos[0] = Px(150, 150) /\ pos[1] = Px(150, 150)
    /\ vel[0] = Px(50, 0) /\ vel[1] = Px(-50, 0)

\* C4 (as claimed): while a drag session is open the grabbed ball's velocity
\* is zero, also when other balls collide with it.
C4_GrabbedVelocityZero == dragging => vel[dragIndex] = Zero

\* C5 (as claimed): while a drag session is open no tick changes the grabbed
\* ball's position.
C5_GrabbedNotMoved ==
    [][(dragging /\ last'.op = "tick") => pos'[dragIndex] = pos[dragIndex]]_vars

\* C6: a press that hits a ball zeroes that ball's velocity in the same event
\* and opens a session recording the press position; a release at p with the
\* session open sets exactly the grabbed ball's velocity to
\* (p - dragStart) * 5, replacing it, changes no other ball and closes the
\* session.
C6_DragThrow ==
    [][/\ (last'.op = "press" /\ \E i \in Balls : DistTo(last'.m, i) <= radius * FINE) =>
             /\ dragging' /\ dragStart' = last'.m
             /\ dragIndex' \in Balls
             /\ DistTo(last'.m, dragIndex') <= radius * FINE
             /\ vel'[dragIndex'] = Zero
             /\ pos' = pos
       /\ (last'.op = "release" /\ dragging) =>
             /\ vel' = [vel EXCEPT ![dragIndex] =
                           Vec(5 * (last'.m.x - dragStart.x),
                               5 * (last'.m.y - dragStart.y))]
             /\ ~dragging'
             /\ pos' = pos]_vars

\* C6 witness: a release has thrown the grabbed ball with a nonzero velocity.
C6_Witness ==
    /\ last.op = "release" /\ last.open /\ ~dragging
    /\ last.m # dragStart
    /\ vel[dragIndex] = Vec(5 * (last.m.x - dragStart.x), 5 * (last.m.y - dragStart.y))

\* C7: a press picks the lowest index among the balls whose centre is within
\* distance <= radius of the press position and affects only that ball; a
\* press that no ball contains changes no velocity, no position and nothing
\* of the drag session.
C7_StartDrag ==
    [][last'.op = "press" =>
          LET m == last'.m
              C == {i \in Balls : DistTo(m, i) <= radius * FINE}
          IN IF C = {}
             THEN UNCHANGED <<pos, vel, dragging, dragIndex, dragStart>>
             ELSE LET k == CHOOSE i \in C : \A c \in C : i <= c
                  IN /\ dragging' /\ dragIndex' = k /\ dragStart' = m
                     /\ vel' = [vel EXCEPT ![k] = Zero]
                     /\ pos' = pos]_vars

\* C7 witness: a press exactly on the rim of ball 0 and inside ball 1 has
\* grabbed ball 0.
C7_Witness ==
    /\ last.op = "press" /\ dragging /\ dragIndex = 0 /\ dragStart = last.m
    /\ DistTo(last.m, 0) = radius * FINE
    /\ DistTo(last.m, 1) < radius * FINE

\* C8: a release with no session open changes no velocity and no position
\* (and nothing of the drag state).
C8_EndDragNoSession ==
    [][(last'.op = "release" /\ ~dragging) =>
          UNCHANGED <<pos, vel, dragging, dragIndex, dragStart>>]_vars

\* C8 witness: a release arrived after the session had been closed, with a
\* ball still moving.
C8_Witness ==
    /\ last.op = "release" /\ ~last.open /\ dragIndex \in Balls
    /\ \E i \in Balls : vel[i] # Zero

\* C9: Space sets every velocity to (0,0), leaves every position, cancels
\* the session; the release that follows throws nothing.
C9_ClearVelocities ==
    [][/\ last'.op = "clear" =>
             /\ \A i \in Balls : vel'[i] = Zero
             /\ pos' = pos
             /\ ~dragging'
       /\ (last.op = "clear" /\ last'.op = "release") =>
             /\ \A i \in Balls : vel'[i] = Zero
             /\ pos' = pos]_vars

\* C9 witness: Space has cancelled an open session after some ball had
\* left its initial position.
C9_Witness ==
    /\ last.op = "clear" /\ last.open /\ ~dragging /\ dragIndex \in Balls
    /\ \E i \in Balls : pos[i] # Placement(Px(20, 0))[i]
                        /\ pos[i] # Placement(Px(12, 16))[i]
                        /\ pos[i] # Placement(Px(100, 0))[i]

\* C10 (as claimed): a release at exactly the grab position leaves the
\* grabbed ball's velocity as it was before the release.
C10_ZeroThrowNoOp ==
    [][(last'.op = "release" /\ dragging /\ last'.m = dragStart) => vel' = vel]_vars

\* ---------------------------------------------- wall handling (C11, C12)
\* the wall tests of lines 115-130 on the position p read after the move
CrossLeft(b, p) == p.x - radius < b.left
CrossRight(b, p) == p.x + radius > b.left + b.width
CrossTop(b, p) == p.y - radius < b.top
CrossBottom(b, p) == p.y + radius > b.top + b.height
WallsCrossed(b, p) ==
    (IF CrossLeft(b, p) THEN {"left"} ELSE {}) \cup
    (IF CrossRight(b, p) THEN {"right"} ELSE {}) \cup
    (IF CrossTop(b, p) THEN {"top"} ELSE {}) \cup
    (IF CrossBottom(b, p) THEN {"bottom"} ELSE {})

\* the coordinate at which the ball's edge exactly touches the crossed wall
TouchX(b, p) ==
    IF CrossLeft(b, p) THEN b.left + radius
    ELSE IF CrossRight(b, p) THEN b.left + b.width - radius ELSE p.x
TouchY(b, p) ==
    IF CrossTop(b, p) THEN b.top + radius
    ELSE IF CrossBottom(b, p) THEN b.top + b.height - radius ELSE p.y

\* the balls the pairwise pass of the last tick has changed
Resolved(r) == {pr[1] : pr \in r} \cup {pr[2] : pr \in r}

\* C11 (as claimed): a ball whose edges crossed a vertical wall and a
\* horizontal wall in the same tick ends the wall handling of that tick with
\* its position clamped on both axes (edge touching each of the two walls)
\* and with both velocity components multiplied by -e.
C11_CornerBounce ==
    [][last'.op = "tick" =>
        \A i \in Balls :
            LET p == Move(pos[i], vel[i], last'.dt)
                w == MoveAndWall(bounds, pos[i], vel[i], last'.dt)
            IN (/\ WallsCrossed(bounds, p) \cap {"left", "right"} # {}
                /\ WallsCrossed(bounds, p) \cap {"top", "bottom"} # {}) =>
                   /\ w.pos = Vec(TouchX(bounds, p), TouchY(bounds, p))
                   /\ w.vel = Vec(Bounce(vel[i].x), Bounce(vel[i].y))
                   /\ i \notin Resolved(last'.resolved) =>
                          pos'[i] = w.pos /\ vel'[i] = w.vel]_vars

\* the ball moves into the one wall it crosses
MovingInto(wall, v) ==
    \/ wall = "left" /\ v.x < 0
    \/ wall = "right" /\ v.x > 0
    \/ wall = "top" /\ v.y < 0
    \/ wall = "bottom" /\ v.y > 0

\* C12: a ball that crosses exactly one wall in a tick while moving into it
\* ends the wall handling with the velocity component on that axis equal to
\* -0.8 times its value, the other component unchanged, the coordinate on
\* that axis set so that the edge touches the wall and the other coordinate
\* as the move left it; a ball the pairwise pass does not touch ends the tick
\* in that state.
C12_RestitutionFlip ==
    [][last'.op = "tick" =>
        \A i \in Balls : \A wall \in {"left", "right", "top", "bottom"} :
            LET p == Move(pos[i], vel[i], last'.dt)
                w == MoveAndWall(bounds, pos[i], vel[i], last'.dt)
                vertical == wall \in {"left", "right"}
            IN (WallsCrossed(bounds, p) = {wall} /\ MovingInto(wall, vel[i])) =>
                   /\ w.pos = Vec(TouchX(bounds, p), TouchY(bounds, p))
                   /\ IF vertical THEN w.pos.y = p.y ELSE w.pos.x = p.x
                   /\ w.vel = IF vertical
                              THEN Vec(RDiv(-8 * vel[i].x, 10), vel[i].y)
                              ELSE Vec(vel[i].x, RDiv(-8 * vel[i].y, 10))
                   /\ IF vertical
                      THEN w.vel.x * vel[i].x < 0 /\ Abs(w.vel.x) < Abs(vel[i].x)
                      ELSE w.vel.y * vel[i].y < 0 /\ Abs(w.vel.y) < Abs(vel[i].y)
                   /\ i \notin Resolved(last'.resolved) =>
                          pos'[i] = w.pos /\ vel'[i] = w.vel]_vars

\* C12 witness: a tick in which ball 0, thrown to the left, has crossed the
\* left wall only and has come back with 0.8 of its speed.
C12_Witness ==
    /\ last.op = "tick"
    /\ pos[0].x = bounds.left + radius
    /\ pos[0].y = 150 * UNIT
    /\ vel[0] = Vec(40 * UNIT, 0)

\* ------------------------------------------- the pairwise pass on its own
\* The ball-ball pass (lines 137-159) applied to drawn two-ball
\* configurations: ball 0 at A, ball 1 at A + offset, the others far away.
Elastic == 10
PairCentre == Px(300, 300)
PairOffsets ==
    {Px(20, 0), Px(-20, 0), Px(12, 16), Px(0, 10), Px(0, 0), Px(30, 0), Px(2, 0)}
PairVels == {Px(0, 0), Px(50, 0), Px(-50, 0), Px(0, 50), Px(30, -40), Px(-30, 40)}

InitPair ==
    /\ bounds = CodeBounds
    /\ \E off \in PairOffsets :
           pos = [i \in Balls |-> IF i = 0 THEN PairCentre
                                  ELSE IF i = 1 THEN VAdd(PairCentre, off)
                                  ELSE Px(600, 100 * (i - 1))]
    /\ \E va \in PairVels, vb \in PairVels :
           vel = [i \in Balls |-> IF i = 0 THEN va ELSE IF i = 1 THEN vb ELSE Zero]
    /\ dragging = FALSE
    /\ dragIndex = -1
    /\ dragStart = Zero
    /\ steps = 0
    /\ last = Last("init", Zero, 0, FALSE, NoPairs)
    /\ ProjectileStart
    /\ ViscosityStart
    /\ OrbitStart

\* One run of the pass with restitution e
PassWith(e, op) ==
    /\ steps < MaxSteps
    /\ LET st == PairPassE([pos |-> pos, vel |-> vel, resolved |-> NoPairs], 0, 1, e)
       IN /\ pos' = st.pos
          /\ vel' = st.vel
          /\ last' = Last(op, Zero, 0, dragging, st.resolved)
    /\ steps' = steps + 1
    /\ UNCHANGED <<bounds, dragging, dragIndex, dragStart>>

PairwisePass == PassWith(restitution, "pass")
ElasticPass == PassWith(Elastic, "elastic")

NextPair ==
    \/ PairwisePass /\ UNCHANGED <<pvars, qvars, ovars>>
    \/ ElasticPass /\ UNCHANGED <<pvars, qvars, ovars>>

SpecPair == InitPair /\ [][NextPair]_vars

\* ------------------------------------------ pair resolution (C13 - C16)
\* the pass's own quantities for the pair (i, j) in the current state
PairD(i, j) == VSub(pos[j], pos[i])
PairN(i, j) == Normal(PairD(i, j), Dist(i, j))
PairVrel(i, j) == Vrel(VSub(vel[i], vel[j]), PairN(i, j))
Detected(i, j) == PairOverlaps(Dist(i, j), minD)
OnlyPair(i, j) == \A q \in Pairs \ {<<i, j>>} : Dist(q[1], q[2]) >= minD

\* The two balls approach: the distance between the centres is decreasing,
\* (velA - velB) . (posB - posA) > 0.
Approaching(i, j) ==
    (vel[i].x - vel[j].x) * (pos[j].x - pos[i].x)
        + (vel[i].y - vel[j].y) * (pos[j].y - pos[i].y) > 0

\* v . t for the tangent t = (-n.y, n.x)
Tangential(v, n) == RDiv(v.y * n.x - v.x * n.y, NSCALE)

\* C13 (as claimed): when exactly one pair overlaps with 0 < dist < minD and
\* the two balls are approaching, the pass moves them apart along the normal
\* by half the overlap each, in opposite directions, and afterwards the
\* distance between the centres is at least minD up to the tolerance.
C13_NonPenetration ==
    [][last'.op = "pass" =>
        \A pr \in Pairs :
            LET i == pr[1]
                j == pr[2]
                h == HalfPush(PairN(i, j), minD - Dist(i, j))
            IN (OnlyPair(i, j) /\ Detected(i, j) /\ Approaching(i, j)) =>
                   /\ pos'[i] = VSub(pos[i], h)
                   /\ pos'[j] = VAdd(pos[j], h)
                   /\ Hypot(pos'[j].x - pos'[i].x, pos'[j].y - pos'[i].y)
                          >= minD - Tolerance]_vars

\* C14 (as claimed): two balls of equal radius that collide head-on with
\* opposite velocities v and -v along the line of centres, detected as
\* overlapping, have the velocities -v and v after a pass run with e = 1.
C14_ElasticExchange ==
    [][last'.op = "elastic" =>
        \A pr \in Pairs :
            LET i == pr[1]
                j == pr[2]
                d == PairD(i, j)
            IN (/\ Detected(i, j) /\ OnlyPair(i, j)
                /\ vel[j] = Vec(-vel[i].x, -vel[i].y) /\ vel[i] # Zero
                /\ vel[i].x * d.y = vel[i].y * d.x
                /\ Approaching(i, j)) =>
                   vel'[i] = vel[j] /\ vel'[j] = vel[i]]_vars

\* C15 (as claimed): for every detected approaching pair the pass changes
\* the velocities by j*n and -j*n with j = -(1+e)*vrel/2, so that the
\* relative velocity along the normal afterwards is -e times the one before
\* and the tangential components of both velocities are unchanged.
C15_ImpulseLaw ==
    [][last'.op = "pass" =>
        \A pr \in Pairs :
            LET i == pr[1]
                j == pr[2]
                n == PairN(i, j)
                jimp == Jimp(PairVrel(i, j))
                P == Vec(RDiv(jimp * n.x, NSCALE), RDiv(jimp * n.y, NSCALE))
            IN (OnlyPair(i, j) /\ Detected(i, j) /\ Approaching(i, j)) =>
                   /\ vel'[i] = VAdd(vel[i], P)
                   /\ vel'[j] = VSub(vel[j], P)
                   /\ Abs(Vrel(VSub(vel'[i], vel'[j]), n)
                            - RDiv(-restitution * PairVrel(i, j), 10)) <= 2
                   /\ Abs(Tangential(vel'[i], n) - Tangential(vel[i], n)) <= 1
                   /\ Abs(Tangential(vel'[j], n) - Tangential(vel[j], n)) <= 1]_vars

\* C16 (as claimed): a pair that overlaps without approaching (the balls
\* separate, or are at relative rest along the normal), or whose centres
\* coincide, is left unchanged by the pass: positions and velocities of both
\* balls stay as they were.
C16_NotApproachingUnchanged ==
    [][last'.op = "pass" =>
        \A pr \in Pairs :
            LET i == pr[1]
                j == pr[2]
            IN (OnlyPair(i, j) /\ Dist(i, j) < minD /\ ~Approaching(i, j)) =>
                   /\ pos'[i] = pos[i] /\ pos'[j] = pos[j]
                   /\ vel'[i] = vel[i] /\ vel'[j] = vel[j]]_vars

\* What the pass does to a single overlapping pair, as it is coded: the
\* pair is changed exactly when 0 < dist < minD and (velA - velB) . n < 0,
\* and then the balls are not approaching; an approaching pair has
\* (velA - velB) . n >= 0 and is left as it is, as is a coincident pair.
PairPassAsCoded ==
    [][last'.op = "pass" =>
        \A pr \in Pairs :
            LET i == pr[1]
                j == pr[2]
                n == PairN(i, j)
                jimp == Jimp(PairVrel(i, j))
                P == Vec(RDiv(jimp * n.x, NSCALE), RDiv(jimp * n.y, NSCALE))
                h == HalfPush(n, minD - Dist(i, j))
            IN OnlyPair(i, j) =>
                   IF Detected(i, j) /\ PairVrel(i, j) < 0
                   THEN /\ ~Approaching(i, j)
                        /\ vel'[i] = VAdd(vel[i], P) /\ vel'[j] = VSub(vel[j], P)
                        /\ pos'[i] = VSub(pos[i], h) /\ pos'[j] = VAdd(pos[j], h)
                        /\ last'.resolved = {pr}
                   ELSE /\ pos' = pos /\ vel' = vel
                        /\ last'.resolved = {}]_vars

\* ------------------------------------------------ no collision (C17)
\* C17: if after the integration of a tick no pair of balls overlaps and no
\* ball's edge is beyond a wall, the wall handling and the pairwise pass
\* change nothing: every ball ends the tick at the position the move gave it
\* and with the velocity it had.
C17_NoCollisionIdempotent ==
    [][last'.op = "tick" =>
        LET p == [i \in Balls |-> Move(pos[i], vel[i], last'.dt)]
        IN (/\ \A i \in Balls : WallsCrossed(bounds, p[i]) = {}
            /\ \A pr \in Pairs :
                   Hypot(p[pr[2]].x - p[pr[1]].x, p[pr[2]].y - p[pr[1]].y) >= minD) =>
               pos' = p /\ vel' = vel]_vars

\* C17 witness: a tick of 0.1 s has carried ball 0, thrown at (50, 0), from
\* (100,150) to (105,150); every ball is clear of the walls and of the others.
C17_Witness ==
    /\ last.op = "tick" /\ last.dt = 1 /\ last.resolved = {}
    /\ pos[0] = Px(105, 150) /\ vel[0] = Px(50, 0)
    /\ \A i \in Balls : WallsCrossed(bounds, pos[i]) = {}
    /\ \A pr \in Pairs : Dist(pr[1], pr[2]) >= minD

\* ------------------------------------------------ the drag slot (C19)
\* the balls a drag session holds
Grabbed == IF dragging THEN {dragIndex} ELSE {}

\* C19: after any sequence of press, release and clear events (presses that
\* hit a ball while a session is open included) and ticks, at most one ball
\* is grabbed, an open session's index is the index of a ball
\* (0 <= dragIndex < number of balls), and a release in an open session
\* throws that ball and no other.
C19_SingleDragSlot ==
    /\ [](Cardinality(Grabbed) <= 1 /\ Grabbed \subseteq Balls)
    /\ [][(last'.op = "release" /\ dragging) =>
              /\ dragIndex \in Balls
              /\ vel'[dragIndex] = Vec((last'.m.x - dragStart.x) * 5,
                                       (last'.m.y - dragStart.y) * 5)
              /\ \A k \in Balls \ {dragIndex} : vel'[k] = vel[k]
              /\ Grabbed' = {}]_vars

\* C19 witness: a press has hit ball 1 while a session was open, and the
\* session now holds ball 1 alone.
C19_Witness ==
    /\ last.op = "press" /\ last.open
    /\ HitIndex(last.m) = 1
    /\ Grabbed = {1} /\ dragStart = last.m

\* ------------------------------------- frames without input (C18)
\* The program left alone after the placement: every ball at rest where the
\* placement put it, and one frame after the other with no event. Balls 0, 1
\* and 2 are placed as a cluster, the others far from it.
ClusterOffsets == {Px(20, 0), Px(-20, 0), Px(12, 16), Px(0, 20), Px(10, 0), Px(0, -10)}

InitRest ==
    /\ bounds = CodeBounds
    /\ \E o1 \in ClusterOffsets, o2 \in ClusterOffsets :
           pos = [i \in Balls |-> IF i = 0 THEN PairCentre
                                  ELSE IF i = 1 THEN VAdd(PairCentre, o1)
                                  ELSE IF i = 2 THEN VAdd(PairCentre, o2)
                                  ELSE Px(600, 100 * (i - 2))]
    /\ \A i \in Balls : InPlacementRange(bounds, pos[i])
    /\ vel = [i \in Balls |-> Zero]
    /\ dragging = FALSE
    /\ dragIndex = -1
    /\ dragStart = Zero
    /\ steps = 0
    /\ last = Last("init", Zero, 0, FALSE, NoPairs)
    /\ ProjectileStart
    /\ ViscosityStart
    /\ OrbitStart

\* A frame of the loop; the frames are not counted
Frame(dt) == Physics(dt) /\ UNCHANGED steps

NextRest == \E dt \in DtValues : Frame(dt) /\ UNCHANGED <<pvars, qvars, ovars>>

SpecRest == InitRest /\ [][NextRest]_vars

\* centre distance < sum of the radii, compared as squares
Overlap(i, j) ==
    (pos[j].x - pos[i].x) * (pos[j].x - pos[i].x)
        + (pos[j].y - pos[i].y) * (pos[j].y - pos[i].y)
    < (radius + radius) * (radius + radius)
AllApart == \A pr \in Pairs : ~Overlap(pr[1], pr[2])
\* three balls overlap at once: one of them overlaps the two others
ThreeOverlap ==
    \E i \in Balls, j \in Balls, k \in Balls :
        /\ i # j /\ j # k /\ i # k
        /\ Overlap(i, j) /\ Overlap(i, k)

\* C18 (as claimed): when three or more balls overlap at once, repeated
\* ticks with no further input eventually reach a state in which every pair
\* of balls has centre distance >= the sum of the radii. In the form a
\* finite run refutes: a tick on three overlapping balls that does not end
\* with every pair apart has corrected something, a position or a velocity
\* has changed; a tick that changes nothing repeats for ever.
C18_ProgressiveCorrection ==
    [][(last'.op = "tick" /\ ThreeOverlap /\ ~AllApart') =>
           (pos' # pos \/ vel' # vel)]_vars

\* C18 (amended): balls that overlap at rest are never separated; a tick in
\* which every ball is at rest, none across a wall, leaves every position and
\* every velocity as it was, so three balls that overlap at rest overlap
\* after every tick.
C18_RestOverlapPersists ==
    [][(/\ last'.op = "tick"
        /\ \A i \in Balls : vel[i] = Zero /\ WallsCrossed(bounds, pos[i]) = {}) =>
           /\ pos' = pos /\ vel' = vel
           /\ ThreeOverlap => ThreeOverlap']_vars

\* C18 witness: a tick has run on three balls that overlap at rest.
C18_Witness ==
    /\ last.op = "tick"
    /\ ThreeOverlap
    /\ \A i \in Balls : vel[i] = Zero

\* ------------------------------------------------ projectile: the loop
MaxFrames == 9

\* release positions mp of the mouse, relative to the cannon
AimOffsets == {Px(0, 0), Px(0, -10), Px(0, -25), Px(30, -40), Px(40, 0), Px(150, -200)}
AimPoints == {VAdd(cannonPos, o) : o \in AimOffsets}
\* frame times: 0.1 s, 0.5 s, 1 s, 2 s
FrameDts == {1, 5, 10, 20}

Min(a, b) == IF a < b THEN a ELSE b

\* a press that begins aiming whether or not a throw is under way
BeginAim_Always ==
    /\ aiming' = TRUE
    /\ ball' = cannonPos
    /\ landed' = FALSE
    /\ launched' = FALSE
    /\ UNCHANGED <<peakPause, velocity, prevVy, maxHeight, pauseClock, resultClock>>
    /\ UNCHANGED flight
    /\ last' = Last("aim", Zero, 0, FALSE, NoPairs)
    /\ UNCHANGED <<cvars, qvars, ovars>>

\* MouseButtonPressed Left: begin aiming, unless a throw is under way
BeginAim ==
    /\ IF ~launched
       THEN /\ aiming' = TRUE
            /\ ball' = cannonPos
            /\ landed' = FALSE
            /\ launched' = FALSE
       ELSE UNCHANGED <<aiming, ball, landed, launched>>
    /\ UNCHANGED <<peakPause, velocity, prevVy, maxHeight, pauseClock, resultClock>>
    /\ UNCHANGED flight
    /\ last' = Last("aim", Zero, 0, FALSE, NoPairs)
    /\ UNCHANGED <<cvars, qvars, ovars>>

ProjectilePressed ==
    /\ steps < MaxFrames
    /\ BeginAim
    /\ steps' = steps + 1

\* min(len * 4.f, 1000.f) for len in 1/(UNIT*FINE) pixel
LaunchSpeed(len) == Min(RDiv(speedPerPixel * len, FINE), maxSpeed)

\* MouseButtonReleased Left while aiming: launch towards mp
Launch(mp) ==
    /\ IF aiming
       THEN /\ aiming' = FALSE
            /\ launched' = TRUE
            /\ LET dir == VSub(mp, cannonPos)
                   len == Hypot(dir.x, dir.y)
               IN IF len > 0
                  THEN LET n == Normal(dir, len)
                           speed == LaunchSpeed(len)
                       IN /\ velocity' = Vec(RDiv(n.x * speed, NSCALE),
                                             RDiv(n.y * speed, NSCALE))
                          /\ ball' = VAdd(cannonPos, Vec(RDiv(n.x * muzzle, NSCALE),
                                                         RDiv(n.y * muzzle, NSCALE)))
                  ELSE UNCHANGED <<velocity, ball>>
            /\ flight' = [n |-> flight.n + 1, up |-> velocity'.y < 0, peaks |-> 0]
       ELSE UNCHANGED <<aiming, launched, velocity, ball, flight>>
    /\ UNCHANGED <<peakPause, landed, prevVy, maxHeight, pauseClock, resultClock>>
    /\ last' = Last("launch", mp, 0, FALSE, NoPairs)
    /\ UNCHANGED <<cvars, qvars, ovars>>

ProjectileReleased(mp) ==
    /\ steps < MaxFrames
    /\ Launch(mp)
    /\ steps' = steps + 1

\* The frame works on a record of the locals; s.pc and s.rc are the elapsed
\* times of pauseClock and resultClock.
\* "Update physics": gravity, move, peak detection; or the end of the pause
UpdatePhysics(s, dt) ==
    IF s.launched /\ ~s.peakPause /\ ~s.landed
    THEN LET vy == s.velocity.y + RDiv(PROJECTILE_GRAVITY * UNIT * dt, DTUNIT)
             b == Move(s.ball, Vec(s.velocity.x, vy), dt)
         IN IF vy >= 0 /\ s.prevVy < 0
            THEN [s EXCEPT !.ball = b, !.peakPause = TRUE, !.pc = 0,
                           !.maxHeight = cannonPos.y - b.y,
                           !.velocity = Vec(s.velocity.x, 0), !.prevVy = 0]
            ELSE [s EXCEPT !.ball = b, !.velocity = Vec(s.velocity.x, vy),
                           !.prevVy = vy]
    ELSE IF s.peakPause /\ s.pc >= peakPauseDur
         THEN [s EXCEPT !.peakPause = FALSE]
         ELSE s

\* "Detect landing"
DetectLanding(s) ==
    IF s.launched /\ ~s.landed /\ ~s.peakPause
          /\ s.ball.y >= (windowSizeY - ballR) * UNIT
    THEN [s EXCEPT !.ball = Vec(s.ball.x, (windowSizeY - ballR) * UNIT),
                   !.landed = TRUE, !.rc = 0]
    ELSE s

\* a loop that never hides the results
Rethrow_Never(s) == s

\* "Hide results ... and allow rethrow"
Rethrow(s) ==
    IF s.landed /\ s.rc >= resultDur
    THEN [s EXCEPT !.landed = FALSE, !.launched = FALSE, !.ball = cannonPos]
    ELSE s

\* The clocks are read against 2 s and 4 s only; a reading stops growing at
\* ClockCap.
ClockCap == 6 * DTUNIT

\* One frame of the loop after the events, the clock delivering dt; the two
\* other clocks have run for dt more since the frame before.
ProjectileLoop(dt) ==
    /\ LET s0 == [launched |-> launched, peakPause |-> peakPause, landed |-> landed,
                  ball |-> ball, velocity |-> velocity, prevVy |-> prevVy,
                  maxHeight |-> maxHeight,
                  pc |-> Min(pauseClock + dt, ClockCap),
                  rc |-> Min(resultClock + dt, ClockCap)]
           s == Rethrow(DetectLanding(UpdatePhysics(s0, dt)))
       IN /\ launched' = s.launched
          /\ peakPause' = s.peakPause
          /\ landed' = s.landed
          /\ ball' = s.ball
          /\ velocity' = s.velocity
          /\ prevVy' = s.prevVy
          /\ maxHeight' = s.maxHeight
          /\ pauseClock' = s.pc
          /\ resultClock' = s.rc
          /\ flight' = [flight EXCEPT
                           !.peaks = IF s.peakPause /\ ~peakPause THEN @ + 1 ELSE @]
    /\ UNCHANGED aiming
    /\ last' = Last("frame", Zero, dt, FALSE, NoPairs)
    /\ UNCHANGED <<cvars, qvars, ovars>>

ProjectileFrame(dt) ==
    /\ steps < MaxFrames
    /\ ProjectileLoop(dt)
    /\ steps' = steps + 1

InitProjectile == InitBalls(CodeBounds) /\ pos = Placement(Px(100, 0))

NextProjectile ==
    \/ ProjectilePressed
    \/ \E mp \in AimPoints : ProjectileReleased(mp)
    \/ \E dt \in FrameDts : ProjectileFrame(dt)

SpecProjectile == InitProjectile /\ [][NextProjectile]_<<vars, pvars>>

\* ---------------------------------------------- rethrow timing (C20)
\* C20 (as claimed): once 2 seconds have passed since the ball landed, the
\* results are hidden and a new throw is allowed: at the end of a frame in
\* which resultClock, restarted at the landing, shows 2 s or more, landed and
\* launched are cleared and the ball is back at the cannon.
C20_RethrowAfterTwoSeconds ==
    (last.op = "frame" /\ landed) => resultClock < 2 * DTUNIT

\* ---------------------------------------------- peak detection (C21)
\* C21 (as claimed): every flight launched with velocity.y < 0 enters the
\* peak pause exactly once before it lands; entering the pause records
\* cannonPos.y - ball.y as the maximum height; while the pause lasts the
\* ball does not move and no landing is detected. For every dt and whatever
\* flights came before.
C21_PeakDetection ==
    [][last'.op = "frame" =>
          /\ (landed' /\ ~landed /\ flight.up) => flight'.peaks = 1
          /\ flight'.peaks <= 1
          /\ (peakPause' /\ ~peakPause) => maxHeight' = cannonPos.y - ball'.y
          /\ peakPause' => ~landed'
          /\ (peakPause /\ peakPause') => ball' = ball]_<<vars, pvars>>

\* ------------------------------------------ flights end (C22)
\* The projectile loop running freely: the frames are not counted, the
\* launches are, and the loop runs a frame with dt > 0 in every iteration.
MaxThrows == 2
FlightOffsets == {Px(0, 0), Px(0, -10), Px(30, -40)}
FlightPoints == {VAdd(cannonPos, o) : o \in FlightOffsets}
\* 0.5 s and 1 s
FlightDts == {5, 10}

FreePress == BeginAim /\ UNCHANGED steps
FreeRelease == \E mp \in FlightPoints :
                   flight.n < MaxThrows /\ Launch(mp) /\ UNCHANGED steps
FreeFrame == \E dt \in FlightDts : ProjectileLoop(dt) /\ UNCHANGED steps

NextFlight ==
    \/ FreePress
    \/ FreeRelease
    \/ FreeFrame

SpecFlight ==
    InitProjectile /\ [][NextFlight]_<<vars, pvars>> /\ WF_<<vars, pvars>>(FreeFrame)

\* ready for a new aim
Ready == ~launched /\ ~landed /\ ball = cannonPos
\* landed with the ball on the ground line
OnGround == landed /\ ball.y = (windowSizeY - ballR) * UNIT

FlagsConsistent ==
    /\ ~(aiming /\ launched)
    /\ landed => launched
    /\ peakPause => (launched /\ ~landed)

\* C23: after any sequence of presses, releases and frames, aiming and
\* launched are never both true, landed implies launched, peakPause implies
\* launched and not landed; a press while launched is true changes no flag
\* and does not move the ball.
C23_FlagInvariants ==
    /\ []FlagsConsistent
    /\ [][(last'.op = "aim" /\ launched) =>
              UNCHANGED <<aiming, launched, peakPause, landed, ball>>]_<<vars, pvars>>

\* C23 witness: a press arrived while the ball was in its peak pause.
C23_Witness == last.op = "aim" /\ launched /\ peakPause

\* ------------------------------------------------ viscosity: the loop
\* frame times in 1/60 s: the frame limit of the window holds dt at 1/60 s
ViscosityDts == {1}

\* PhysicsCircle::bottom, PhysicsCircle::setBottom (on the y coordinate)
Bottom(y) == y + circleRadius * UNIT
SetBottom(y) == y - circleRadius * UNIT

\* the body of `if (!balls[i].settled)` for ball i
Sink(i, b, dt) ==
    LET a == PROJECTILE_GRAVITY * UNIT - viscosityValues[i + 1] * b.velocity.y
        vy == b.velocity.y + RDiv(a * dt, FRAMERATE)
        y == b.position.y + RDiv(vy * dt, FRAMERATE)
        bottomY == ContainerPos(i).y + height * UNIT - circleRadius * UNIT
    IN IF Bottom(y) >= bottomY
       THEN [position |-> Vec(b.position.x, SetBottom(bottomY)),
             velocity |-> Zero, settled |-> TRUE]
       ELSE [position |-> Vec(b.position.x, y),
             velocity |-> Vec(b.velocity.x, vy), settled |-> FALSE]

\* a loop that integrates whether or not Space was pressed
Integrate_AlwaysRuns(dt) ==
    balls' = [i \in Circles |-> IF balls[i].settled THEN balls[i]
                                ELSE Sink(i, balls[i], dt)]

\* `if (isRunning)`: every ball that is not settled integrates
Integrate(dt) ==
    IF isRunning
    THEN balls' = [i \in Circles |-> IF balls[i].settled THEN balls[i]
                                     ELSE Sink(i, balls[i], dt)]
    ELSE UNCHANGED balls

\* KeyPressed Space
ViscositySpace ==
    /\ isRunning' = TRUE
    /\ UNCHANGED balls
    /\ last' = Last("space", Zero, 0, FALSE, NoPairs)

\* an R that leaves the simulation running
ViscosityReset_KeepsRunning ==
    /\ UNCHANGED isRunning
    /\ balls' = [i \in Circles |-> PhysicsCircle(CircleStart(i))]
    /\ last' = Last("reset", Zero, 0, isRunning, {i \in Circles : balls[i].settled})

\* KeyPressed R; last keeps whether the simulation was running and which
\* balls were settled
ViscosityReset ==
    /\ isRunning' = FALSE
    /\ balls' = [i \in Circles |-> PhysicsCircle(CircleStart(i))]
    /\ last' = Last("reset", Zero, 0, isRunning, {i \in Circles : balls[i].settled})

\* one iteration of the loop after its events
ViscosityFrame(dt) ==
    /\ Integrate(dt)
    /\ UNCHANGED isRunning
    /\ last' = Last("sink", Zero, dt, FALSE, NoPairs)

InitViscosity == InitBalls(CodeBounds) /\ pos = Placement(Px(100, 0))

NextViscosity ==
    \/ ViscositySpace /\ UNCHANGED <<cvars, pvars, ovars, steps>>
    \/ ViscosityReset /\ UNCHANGED <<cvars, pvars, ovars, steps>>
    \/ \E dt \in ViscosityDts : ViscosityFrame(dt) /\ UNCHANGED <<cvars, pvars, ovars, steps>>

SpecViscosity == InitViscosity /\ [][NextViscosity]_<<vars, qvars>>

\* C24: no ball moves before Space is pressed (while isRunning is false), and
\* a settled ball keeps its position and the velocity (0,0) over every frame,
\* while every ball that is not settled integrates by its own viscosity
\* whatever the others do.
C24_SettlingAbsorbing ==
    [][last'.op = "sink" =>
          /\ ~isRunning => balls' = balls
          /\ \A i \in Circles :
                balls[i].settled =>
                    /\ balls'[i] = balls[i]
                    /\ balls[i].velocity = Zero
          /\ \A i \in Circles :
                (isRunning /\ ~balls[i].settled) =>
                    balls'[i] = Sink(i, balls[i], last'.dt)]_<<vars, qvars>>

\* C24 witness: a frame has run with the water ball settled and the honey
\* ball still sinking.
C24_Witness ==
    /\ last.op = "sink"
    /\ isRunning
    /\ balls[0].settled
    /\ ~balls[3].settled /\ balls[3].velocity.y > 0


\* C25: R puts every ball back at its initial position (the centre of its
\* container, 10 above the middle) with zero velocity and settled = false and
\* clears isRunning; frames leave the balls there until Space is pressed; a
\* second R changes nothing.
C25_ResetRestoresStart ==
    [][/\ last'.op = "reset" =>
              /\ \A i \in Circles :
                    /\ balls'[i].position =
                           Vec(ContainerPos(i).x + 75 * UNIT, ContainerPos(i).y + 190 * UNIT)
                    /\ balls'[i].velocity = Zero
                    /\ ~balls'[i].settled
              /\ ~isRunning'
       /\ (last.op = "reset" /\ last'.op = "reset") =>
              (balls' = balls /\ isRunning' = isRunning)
       /\ (last.op = "reset" /\ last'.op = "sink") => balls' = balls]_<<vars, qvars>>

\* C25 witness: R was pressed while the simulation was running, some balls
\* settled and others still sinking.
C25_Witness ==
    /\ last.op = "reset"
    /\ last.open
    /\ last.resolved # {} /\ last.resolved # Circles
    /\ ~isRunning


\* the floor of container i: container top + height
Floor(i) == ContainerPos(i).y + height * UNIT

\* C26 (as claimed): a ball is settled from the first frame in which its
\* bottom edge (centre.y + radius) reaches the floor of its container, and a
\* settled ball rests with its bottom edge on that floor.
C26_SettlesOnFloor ==
    \A i \in Circles :
        IF balls[i].settled
        THEN balls[i].position.y + circleRadius * UNIT = Floor(i)
        ELSE balls[i].position.y + circleRadius * UNIT < Floor(i)


\* ------------------------------------------------ momentum (C27)
RECURSIVE SumBelow(_, _)
\* v[0] + ... + v[n-1]
SumBelow(v, n) == IF n = 0 THEN Zero ELSE VAdd(SumBelow(v, n - 1), v[n - 1])
\* the sum of the velocities of all balls
Momentum(v) == SumBelow(v, NumBalls)
\* the velocities a tick's wall handling hands to the pairwise pass
AfterWalls(dt) == [i \in Balls |-> MoveAndWall(bounds, pos[i], vel[i], dt).vel]
\* some ball's move of a tick crosses a wall
WallHit(dt) == \E i \in Balls : WallsCrossed(bounds, Move(pos[i], vel[i], dt)) # {}

\* C27: the pairwise pass of a tick leaves the sum of the velocities of all
\* balls as the wall handling left it, whatever pairs it resolves; the sum
\* changes only in a tick with a wall bounce, in a release (throw), a press
\* (grab) or a clear-velocities command.
C27_MomentumConserved ==
    [][/\ last'.op = "tick" => Momentum(vel') = Momentum(AfterWalls(last'.dt))
       /\ Momentum(vel') # Momentum(vel) =>
              \/ last'.op \in {"press", "release", "clear"}
              \/ last'.op = "tick" /\ WallHit(last'.dt)]_vars

\* C27 witness: a tick has resolved two pairs and left the balls moving.
C27_Witness ==
    /\ last.op = "tick"
    /\ Cardinality(last.resolved) >= 2
    /\ \E i \in Balls : vel[i] # Zero


\* ------------------------------------------------ orbits: the loop
MaxOrbitFrames == 100
\* the frames at the start of a run whose frame time is free; later frames
\* take 1/60 s
MaxIrregular == 3
\* frame times in 1/60 s
OrbitDts == {1, 2}

\* 1000 * sin(x) for x in 1/100000 rad, by Bhaskara's rational approximation
\* on a half turn
Sin(x) ==
    LET r == x % TWO_PI
        h == IF r > TWO_PI \div 2 THEN r - TWO_PI \div 2 ELSE r
        m == RDiv(h, 100)
        t == RDiv(m * (RDiv(TWO_PI, 200) - m), 100)
        v == RDiv(16000 * t, RDiv(5 * RDiv(TWO_PI, 200) * RDiv(TWO_PI, 200), 100) - 4 * t)
    IN IF r > TWO_PI \div 2 THEN -v ELSE v
Cos(x) == Sin(x + HALF_PI)

\* 2 * PI / (orbitPeriod * 86400.f / TIME_SCALE), in 1/100000 rad per second
orbitAngularSpeed(p) == RDiv(TWO_PI * 1000, orbitPeriod(p))

\* an update that cuts the trail at its newest end
PlanetUpdate_DropsNewest(pl, p, elapsed) ==
    LET a == pl.currentOrbitAngle + RDiv(orbitAngularSpeed(p) * elapsed, FRAMERATE)
    IN [currentOrbitAngle |-> IF a > TWO_PI THEN a - TWO_PI ELSE a,
        trail |-> IF Len(pl.trail) > trailCut
                  THEN SubSeq(pl.trail, 1, Len(pl.trail) - 1) ELSE pl.trail]

\* Planet::update
PlanetUpdate(pl, p, elapsed) ==
    LET a == pl.currentOrbitAngle + RDiv(orbitAngularSpeed(p) * elapsed, FRAMERATE)
    IN [currentOrbitAngle |-> IF a > TWO_PI THEN a - TWO_PI ELSE a,
        trail |-> IF Len(pl.trail) > trailCut THEN Tail(pl.trail) ELSE pl.trail]

\* Planet::getPosition
GetPosition(pl, p, cx, cy) ==
    Vec(cx + RDiv(orbitRadius(p) * Cos(pl.currentOrbitAngle), NSCALE),
        cy + RDiv(orbitRadius(p) * Sin(pl.currentOrbitAngle), NSCALE))

\* Planet::addTrailPoint
AddTrailPoint(pl, q) == [pl EXCEPT !.trail = Append(@, q)]

\* "Update planets": one frame of the loop
OrbitFrame(dt) ==
    /\ steps < MaxOrbitFrames
    /\ steps >= MaxIrregular => dt = 1
    /\ LET u == [p \in Planets |-> PlanetUpdate(planets[p], p, dt)]
           q == [p \in Planets |-> GetPosition(u[p], p, center.x, center.y)]
       IN /\ planets' = [p \in Planets |-> AddTrailPoint(u[p], q[p])]
          /\ path' = [p \in Planets |-> Append(path[p], q[p])]
    /\ steps' = steps + 1
    /\ last' = Last("orbit", Zero, dt, FALSE, NoPairs)

InitOrbit == InitBalls(CodeBounds) /\ pos = Placement(Px(100, 0))

NextOrbit == \E dt \in OrbitDts : OrbitFrame(dt) /\ UNCHANGED <<cvars, pvars, qvars>>

SpecOrbit == InitOrbit /\ [][NextOrbit]_<<vars, ovars>>

\* the last n elements of s
Recent(s, n) == SubSeq(s, Len(s) - n + 1, Len(s))

\* C28: after any number of frames every planet's trail holds at most 81
\* points, and they are the planet's most recent positions in the order they
\* were added: a dropped point is always the oldest one.
C28_TrailBound ==
    \A p \in Planets :
        /\ Len(planets[p].trail) <= 81
        /\ Len(planets[p].trail) = Min(Len(path[p]), 81)
        /\ planets[p].trail = Recent(path[p], Len(planets[p].trail))

\* C28 witness: a planet has been given more than 81 points, all of its 81
\* trail points differ, and the oldest one is gone.
C28_Witness ==
    /\ last.op = "orbit"
    /\ Len(path[1]) > 82
    /\ Len(planets[1].trail) = 81
    /\ planets[1].trail[1] # path[1][1]
    /\ planets[1].trail[1] # planets[1].trail[81]

====
